---- MODULE Spec2Model ----
(***************************************************************************)
(* Model of the citation extraction core of app.py (Citation Extractor).   *)
(*                                                                         *)
(* A Python str is a sequence of characters; a character is a one-letter   *)
(* TLA+ string (the en dash U+2013 is the symbol EnDash).  Every regular   *)
(* expression of the source is an operator over such sequences that        *)
(* follows the matching order of Python's re module (leftmost match,       *)
(* alternatives in the order written, greedy quantifiers).                 *)
(***************************************************************************)
EXTENDS Naturals, Sequences, FiniteSets

VARIABLES text, pc, apa_p, apa_n, ieee, table, rows, error, run, prev, arg, ret

vars == <<text, pc, apa_p, apa_n, ieee, table, rows, error, run, prev, arg, ret>>

----------------------------------------------------------------------------
(* Characters and character classes *)

EnDash == "EN DASH"

LowerSeq ==
  <<"a","b","c","d","e","f","g","h","i","j","k","l","m",
    "n","o","p","q","r","s","t","u","v","w","x","y","z">>

UpperSeq ==
  <<"A","B","C","D","E","F","G","H","I","J","K","L","M",
    "N","O","P","Q","R","S","T","U","V","W","X","Y","Z">>

DigitSeq == <<"0","1","2","3","4","5","6","7","8","9">>

Range(q) == {q[i] : i \in DOMAIN q}

LowerAZ == Range(LowerSeq)
UpperAZ == Range(UpperSeq)
Digit == Range(DigitSeq)

\* \s of re and the default character set of str.strip()
WS == {" ", "\t", "\n"}

\* re.I: case-insensitive comparison of one character
ToLower(c) ==
  IF c \in UpperAZ THEN LowerSeq[CHOOSE i \in DOMAIN UpperSeq : UpperSeq[i] = c] ELSE c

----------------------------------------------------------------------------
(* str helpers *)

Last(s) == s[Len(s)]

From(s, i) == SubSeq(s, i, Len(s))

RECURSIVE SkipWhile(_, _, _)
\* greedy X*: the first position >= i whose character is not in set
SkipWhile(s, i, set) ==
  IF i <= Len(s) /\ s[i] \in set THEN SkipWhile(s, i + 1, set) ELSE i

RECURSIVE SkipUntil(_, _, _)
\* greedy [^X]*: the first position >= i whose character is in set
SkipUntil(s, i, set) ==
  IF i <= Len(s) /\ s[i] \notin set THEN SkipUntil(s, i + 1, set) ELSE i

RECURSIVE LStrip(_, _)
LStrip(s, set) ==
  IF s # <<>> /\ Head(s) \in set THEN LStrip(Tail(s), set) ELSE s

RECURSIVE RStrip(_, _)
RStrip(s, set) ==
  IF s # <<>> /\ Last(s) \in set THEN RStrip(SubSeq(s, 1, Len(s) - 1), set) ELSE s

\* str.strip(chars)
Strip(s, set) == LStrip(RStrip(s, set), set)

\* the literal lit (lower case) matches s at position i, ignoring case
MatchesAtI(s, i, lit) ==
  /\ i + Len(lit) - 1 <= Len(s)
  /\ \A k \in DOMAIN lit : ToLower(s[i + k - 1]) = lit[k]

\* the literal lit matches s at position i
MatchesAt(s, i, lit) ==
  /\ i + Len(lit) - 1 <= Len(s)
  /\ \A k \in DOMAIN lit : s[i + k - 1] = lit[k]

----------------------------------------------------------------------------
(* _clean_piece *)

\* the alternatives of the connector pattern, in the order written;
\* the fifth one, i\.e\.,? , takes an optional comma (IeAlt)
Connectors ==
  << <<"s","e","e">>,
     <<"e",".","g",".">>,
     <<"c","f",".">>,
     <<"e",".","g">>,
     <<"i",".","e",".">>,
     <<"f","o","r"," ","e","x","a","m","p","l","e">>,
     <<"s","e","e"," ","a","l","s","o">> >>

IeAlt == <<"i",".","e",".">>

\* ^(?:see|e\.g\.|cf\.|e\.g|i\.e\.,?|for example|see also)\s*[:,]?\s*
\* the position after the match at the start of s, 0 when there is none
ConnectorMatchEnd(s) ==
  LET hits == {a \in DOMAIN Connectors : MatchesAtI(s, 1, Connectors[a])}
  IN  IF hits = {} THEN 0
      ELSE
        LET a  == CHOOSE x \in hits : \A y \in hits : x <= y
            j0 == Len(Connectors[a]) + 1
            j1 == IF Connectors[a] = IeAlt /\ j0 <= Len(s) /\ s[j0] = ","
                  THEN j0 + 1 ELSE j0
            j2 == SkipWhile(s, j1, WS)
            j3 == IF j2 <= Len(s) /\ s[j2] \in {":", ","} THEN j2 + 1 ELSE j2
        IN  SkipWhile(s, j3, WS)

RemoveConnector(s) ==
  LET e == ConnectorMatchEnd(s) IN IF e = 0 THEN s ELSE From(s, e)

_clean_piece(s) == Strip(RemoveConnector(Strip(s, WS)), {" ", ".", ";", ","})

----------------------------------------------------------------------------
(* RE_YEAR = (?:19|20)\d{2}[a-z]?  and  RE_NAME = [A-Z][A-Za-z'\-]+ *)

\* (?:19|20)\d{2} at position i
Year4At(s, i) ==
  /\ i + 3 <= Len(s)
  /\ \/ s[i] = "1" /\ s[i + 1] = "9"
     \/ s[i] = "2" /\ s[i + 1] = "0"
  /\ s[i + 2] \in Digit
  /\ s[i + 3] \in Digit

\* position after RE_YEAR matched at i (the optional letter is greedy)
YearEnd(s, i) ==
  IF i + 4 <= Len(s) /\ s[i + 4] \in LowerAZ THEN i + 5 ELSE i + 4

\* re.search(RE_YEAR, s)
HasYear(s) == \E i \in DOMAIN s : Year4At(s, i)

NameChars == UpperAZ \cup LowerAZ \cup {"'", "-"}

\* position after RE_NAME matched at i, 0 when it does not match
NameEnd(s, i) ==
  LET j == SkipWhile(s, i + 1, NameChars)
  IN  IF i <= Len(s) /\ s[i] \in UpperAZ /\ j > i + 1 THEN j ELSE 0

----------------------------------------------------------------------------
(* The patterns handed to re.sub and re.split.  Each matcher gives the      *)
(* position after the match that starts at i, or 0 when the pattern does    *)
(* not match at i; every one of them matches at least one character.        *)

\* ;
SemicolonEnd(s, i) == IF s[i] = ";" THEN i + 1 ELSE 0

\* ,?\s*p+p?\.?\s*\d+(\-\d+)?  with re.I
PageRefEnd(s, i) ==
  LET j1 == IF s[i] = "," THEN i + 1 ELSE i
      j2 == SkipWhile(s, j1, WS)
      j3 == SkipWhile(s, j2, {"p", "P"})
      j4 == IF j3 <= Len(s) /\ s[j3] = "." THEN j3 + 1 ELSE j3
      j5 == SkipWhile(s, j4, WS)
      j6 == SkipWhile(s, j5, Digit)
      j7 == IF j6 + 1 <= Len(s) /\ s[j6] = "-" /\ s[j6 + 1] \in Digit
            THEN SkipWhile(s, j6 + 1, Digit) ELSE j6
  IN  IF j3 > j2 /\ j6 > j5 THEN j7 ELSE 0

\* \s+and\s+
AndEnd(s, i) ==
  LET j == SkipWhile(s, i, WS)
      k == SkipWhile(s, j + 3, WS)
  IN  IF j > i /\ MatchesAt(s, j, <<"a", "n", "d">>) /\ k > j + 3 THEN k ELSE 0

\* \s{2,}
SpacesEnd(s, i) ==
  LET j == SkipWhile(s, i, WS) IN IF j >= i + 2 THEN j ELSE 0

\* \s*,\s*
CommaEnd(s, i) ==
  LET j == SkipWhile(s, i, WS)
  IN  IF j <= Len(s) /\ s[j] = "," THEN SkipWhile(s, j + 1, WS) ELSE 0

\* [\-\u2013]
DashEnd(s, i) == IF s[i] \in {"-", EnDash} THEN i + 1 ELSE 0

PatternEnd(pat, s, i) ==
  CASE pat = "semicolon" -> SemicolonEnd(s, i)
    [] pat = "pageref"   -> PageRefEnd(s, i)
    [] pat = "and"       -> AndEnd(s, i)
    [] pat = "spaces"    -> SpacesEnd(s, i)
    [] pat = "comma"     -> CommaEnd(s, i)
    [] pat = "dash"      -> DashEnd(s, i)

RECURSIVE ReSub(_, _, _, _)
\* re.sub(pat, repl, s), from position i on
ReSub(pat, repl, s, i) ==
  IF i > Len(s) THEN <<>>
  ELSE LET e == PatternEnd(pat, s, i)
       IN  IF e > i THEN repl \o ReSub(pat, repl, s, e)
           ELSE <<s[i]>> \o ReSub(pat, repl, s, i + 1)

RECURSIVE ReSplit(_, _, _, _)
\* re.split(pat, s), from position i on, cur being the piece collected so far
ReSplit(pat, s, i, cur) ==
  IF i > Len(s) THEN <<cur>>
  ELSE LET e == PatternEnd(pat, s, i)
       IN  IF e > i THEN <<cur>> \o ReSplit(pat, s, e, <<>>)
           ELSE ReSplit(pat, s, i + 1, Append(cur, s[i]))

----------------------------------------------------------------------------
(* extract_apa_parenthetical *)

RECURSIVE ParenGroups(_, _)
\* re.finditer(r"\(([^()]*?(?:19|20)\d{2}[^()]*)\)", text): group(1) of every
\* match from position i on.  [^()] cannot cross a parenthesis, so a match
\* that starts at "(" ends at the next parenthesis, which must be ")".
ParenGroups(s, i) ==
  IF i > Len(s) THEN <<>>
  ELSE IF s[i] # "(" THEN ParenGroups(s, i + 1)
  ELSE LET j      == SkipUntil(s, i + 1, {"(", ")"})
           inside == SubSeq(s, i + 1, j - 1)
       IN  IF j <= Len(s) /\ s[j] = ")" /\ HasYear(inside)
           THEN <<inside>> \o ParenGroups(s, j + 1)
           ELSE ParenGroups(s, i + 1)

RemovePageRefs(s) == ReSub("pageref", <<>>, s, 1)

\* re.sub(rf"({RE_YEAR}).*$", r"\1", s): "." does not match a newline and "$"
\* matches at the end of the string or before a newline that ends it
TruncateAfterYear(s) ==
  LET LineEnd(i) == SkipUntil(s, YearEnd(s, i), {"\n"})
      hits == {i \in DOMAIN s : Year4At(s, i) /\ LineEnd(i) >= Len(s)}
  IN  IF hits = {} THEN s
      ELSE LET i == CHOOSE x \in hits : \A y \in hits : x <= y
           IN  SubSeq(s, 1, YearEnd(s, i) - 1) \o From(s, LineEnd(i))

NormalizeAnd(s) == ReSub("and", <<" ", "&", " ">>, s, 1)

CollapseSpaces(s) == ReSub("spaces", <<" ">>, s, 1)

\* the body of "if re.search(RE_YEAR, piece):"
NormalizePiece(piece) ==
  Strip(CollapseSpaces(NormalizeAnd(TruncateAfterYear(RemovePageRefs(piece)))),
        {" ", ",", ";"})

RECURSIVE PiecesOf(_)
\* the inner loop over re.split(r";", inside)
PiecesOf(parts) ==
  IF parts = <<>> THEN <<>>
  ELSE LET piece == _clean_piece(Head(parts))
       IN  (IF HasYear(piece) THEN <<NormalizePiece(piece)>> ELSE <<>>)
           \o PiecesOf(Tail(parts))

RECURSIVE ParenLoop(_)
\* the outer loop over the matches
ParenLoop(groups) ==
  IF groups = <<>> THEN <<>>
  ELSE PiecesOf(ReSplit("semicolon", Head(groups), 1, <<>>)) \o ParenLoop(Tail(groups))

extract_apa_parenthetical(t) == ParenLoop(ParenGroups(t, 1))

----------------------------------------------------------------------------
(* extract_apa_narrative *)

\* \s*\(\s*(RE_YEAR)\s*\) matched at position j: the year's span and the
\* position after the match; end = 0 when it does not match
YearParen(s, j) ==
  LET a == SkipWhile(s, j, WS)
      y == SkipWhile(s, a + 1, WS)
      z == YearEnd(s, y)
      c == SkipWhile(s, z, WS)
  IN  IF a <= Len(s) /\ s[a] = "(" /\ Year4At(s, y) /\ c <= Len(s) /\ s[c] = ")"
      THEN [end |-> c + 1, year |-> SubSeq(s, y, z - 1)]
      ELSE [end |-> 0, year |-> <<>>]

EtAl == <<"e", "t", " ", "a", "l", ".">>

\* ((?:NAME(?:\s*&\s*NAME)?|NAME\s+et al\.))\s*\(\s*(YEAR)\s*\) matched at i:
\* group 1, group 2 and the position after the match (0: no match)
NarrativeAt(s, i) ==
  LET n1 == NameEnd(s, i)
      \* first alternative, with its optional second name
      amp == SkipWhile(s, n1, WS)
      n2  == IF n1 > 0 /\ amp <= Len(s) /\ s[amp] = "&"
             THEN NameEnd(s, SkipWhile(s, amp + 1, WS)) ELSE 0
      two == YearParen(s, n2)
      one == YearParen(s, n1)
      \* second alternative
      w   == SkipWhile(s, n1, WS)
      n3  == IF n1 > 0 /\ w > n1 /\ MatchesAt(s, w, EtAl) THEN w + Len(EtAl) ELSE 0
      etal == YearParen(s, n3)
      none == [end |-> 0, name |-> <<>>, year |-> <<>>]
  IN  IF n1 = 0 THEN none
      ELSE IF n2 > 0 /\ two.end > 0
        THEN [end |-> two.end, name |-> SubSeq(s, i, n2 - 1), year |-> two.year]
      ELSE IF one.end > 0
        THEN [end |-> one.end, name |-> SubSeq(s, i, n1 - 1), year |-> one.year]
      ELSE IF n3 > 0 /\ etal.end > 0
        THEN [end |-> etal.end, name |-> SubSeq(s, i, n3 - 1), year |-> etal.year]
      ELSE none

RECURSIVE NarrativeLoop(_, _)
\* the loop over re.finditer, from position i on
NarrativeLoop(s, i) ==
  IF i > Len(s) THEN <<>>
  ELSE LET m == NarrativeAt(s, i)
       IN  IF m.end = 0 THEN NarrativeLoop(s, i + 1)
           ELSE <<NormalizeAnd(m.name) \o <<",", " ">> \o m.year>>
                \o NarrativeLoop(s, m.end)

extract_apa_narrative(t) == NarrativeLoop(t, 1)

----------------------------------------------------------------------------
(* int(), str() and the order of str values *)

\* int(t) succeeds: t is a run of decimal digits
IntOk(t) == t # <<>> /\ \A k \in DOMAIN t : t[k] \in Digit

DigitVal(c) == (CHOOSE i \in DOMAIN DigitSeq : DigitSeq[i] = c) - 1

RECURSIVE ToInt(_)
\* int(t) of a run of digits
ToInt(t) ==
  IF t = <<>> THEN 0
  ELSE 10 * ToInt(SubSeq(t, 1, Len(t) - 1)) + DigitVal(Last(t))

RECURSIVE ToStr(_)
\* str(n) of a natural number
ToStr(n) ==
  IF n < 10 THEN <<DigitSeq[n + 1]>>
  ELSE ToStr(n \div 10) \o <<DigitSeq[(n % 10) + 1]>>

\* the printable ASCII characters U+0020 to U+005F and U+0061 to U+007E
AsciiLow ==
  <<" ","!","\"","#","$","%","&","'","(",")","*","+",",","-",".","/",
    "0","1","2","3","4","5","6","7","8","9",":",";","<","=",">","?","@",
    "A","B","C","D","E","F","G","H","I","J","K","L","M",
    "N","O","P","Q","R","S","T","U","V","W","X","Y","Z",
    "[","\\","]","^","_">>

AsciiHigh ==
  <<"a","b","c","d","e","f","g","h","i","j","k","l","m",
    "n","o","p","q","r","s","t","u","v","w","x","y","z",
    "{","|","}","~">>

\* ord(c)
CodePoint(c) ==
  IF c = "\t" THEN 9
  ELSE IF c = "\n" THEN 10
  ELSE IF c = EnDash THEN 8211
  ELSE IF c \in Range(AsciiLow)
    THEN 31 + (CHOOSE i \in DOMAIN AsciiLow : AsciiLow[i] = c)
  ELSE 96 + (CHOOSE i \in DOMAIN AsciiHigh : AsciiHigh[i] = c)

RECURSIVE StrLess(_, _)
\* a < b of two str values
StrLess(a, b) ==
  IF b = <<>> THEN FALSE
  ELSE IF a = <<>> THEN TRUE
  ELSE IF Head(a) = Head(b) THEN StrLess(Tail(a), Tail(b))
  ELSE CodePoint(Head(a)) < CodePoint(Head(b))

----------------------------------------------------------------------------
(* extract_ieee *)

RECURSIVE BlobItems(_, _)
\* (?:\s*[\-,\u2013]\s*\d+|\s*,\s*\d+)* from position j: the position after its
\* last iteration
BlobItems(s, j) ==
  LET k  == SkipWhile(s, j, WS)
      k2 == SkipWhile(s, k + 1, WS)
      k3 == SkipWhile(s, k2, Digit)
  IN  IF k <= Len(s) /\ s[k] \in {"-", ",", EnDash} /\ k3 > k2
      THEN BlobItems(s, k3) ELSE j

\* BlobEnd with a pattern that takes any content, \[([^\]]+)\]
BlobEnd_anyContent(s, i) ==
  LET j == SkipUntil(s, i + 1, {"]"})
  IN  IF s[i] = "[" /\ j > i + 1 /\ j <= Len(s) THEN j ELSE 0

\* \[(\d+(?:\s*[\-,\u2013]\s*\d+|\s*,\s*\d+)*)\] matched at position i: the
\* position of the closing bracket, 0 when it does not match
BlobEnd(s, i) ==
  LET d == SkipWhile(s, i + 1, Digit)
      j == BlobItems(s, d)
  IN  IF s[i] = "[" /\ d > i + 1 /\ j <= Len(s) /\ s[j] = "]" THEN j ELSE 0

RECURSIVE IeeeBlobs(_, _)
\* group(1) of every match of re.finditer, from position i on
IeeeBlobs(s, i) ==
  IF i > Len(s) THEN <<>>
  ELSE LET j == BlobEnd(s, i)
       IN  IF j = 0 THEN IeeeBlobs(s, i + 1)
           ELSE <<SubSeq(s, i + 1, j - 1)>> \o IeeeBlobs(s, j + 1)

\* re.search(r"[\-\u2013]", p)
HasDash(p) == \E k \in DOMAIN p : p[k] \in {"-", EnDash}

\* "a,b = re.split(...)" stands outside the try: any number of pieces
\* other than two raises ValueError out of extract_ieee
PartRaises(p) == HasDash(p) /\ Len(ReSplit("dash", p, 1, <<>>)) # 2

\* PartNums with a range whose bounds are swapped when a > b
PartNums_swapsBounds(p) ==
  IF HasDash(p)
  THEN LET sides == ReSplit("dash", p, 1, <<>>)
           a == Strip(sides[1], WS)
           b == Strip(sides[2], WS)
           lo == IF ToInt(a) <= ToInt(b) THEN ToInt(a) ELSE ToInt(b)
           hi == IF ToInt(a) <= ToInt(b) THEN ToInt(b) ELSE ToInt(a)
       IN  IF IntOk(a) /\ IntOk(b)
           THEN [x \in 1..(hi - lo + 1) |-> ToStr(lo + x - 1)]
           ELSE <<>>
  ELSE <<Strip(p, WS)>>

\* what one part adds to nums
PartNums(p) ==
  IF HasDash(p)
  THEN LET sides == ReSplit("dash", p, 1, <<>>)
           a == Strip(sides[1], WS)
           b == Strip(sides[2], WS)
       IN  IF IntOk(a) /\ IntOk(b) /\ ToInt(a) <= ToInt(b)
           THEN [x \in 1..(ToInt(b) - ToInt(a) + 1) |-> ToStr(ToInt(a) + x - 1)]
           ELSE <<>>
  ELSE <<Strip(p, WS)>>

\* the parts of every matched group, in order
RECURSIVE PartsOf(_)
PartsOf(blobs) ==
  IF blobs = <<>> THEN <<>>
  ELSE ReSplit("comma", Head(blobs), 1, <<>>) \o PartsOf(Tail(blobs))

IeeeParts(t) == PartsOf(IeeeBlobs(t, 1))

RECURSIVE NumsOf(_)
NumsOf(parts) ==
  IF parts = <<>> THEN <<>> ELSE PartNums(Head(parts)) \o NumsOf(Tail(parts))

\* nums at the end of the loops
IeeeNums(t) == NumsOf(IeeeParts(t))

\* x.isdigit()
IsDigitStr(x) == IntOk(x)

\* key(x) <= key(y) for key = lambda x: int(x) if x.isdigit() else x
\* (both keys int, or both str)
KeyLeq(x, y) ==
  IF IsDigitStr(x) THEN ToInt(x) <= ToInt(y) ELSE ~StrLess(y, x)

\* an int key meets a str key: "<" raises TypeError
SortRaises(S) == \E x, y \in S : IsDigitStr(x) /\ ~IsDigitStr(y)

RECURSIVE SortedOrders(_)
\* sorted(set(nums), key=...): sorted() is stable and the iteration order of
\* a set of str is not specified (str hashes differ from process to
\* process), so elements with equal keys come out in any order
SortedOrders(S) ==
  IF S = {} THEN {<<>>}
  ELSE LET least == {x \in S : \A y \in S : KeyLeq(x, y)}
       IN  UNION {{<<x>> \o q : q \in SortedOrders(S \ {x})} : x \in least}

\* [f"[{n}]" for n in uniq]
Bracketed(uniq) == [k \in DOMAIN uniq |-> <<"[">> \o uniq[k] \o <<"]">>]

IeeeRaises(t) ==
  \/ \E k \in DOMAIN IeeeParts(t) : PartRaises(IeeeParts(t)[k])
  \/ SortRaises(Range(IeeeNums(t)))

\* the values extract_ieee can return
extract_ieee(t) == {Bracketed(uniq) : uniq \in SortedOrders(Range(IeeeNums(t)))}

----------------------------------------------------------------------------
(* extract_citations_from_text *)

RECURSIVE DedupeLoop(_, _, _)
DedupeLoop(seq, seen, out) ==
  IF seq = <<>> THEN out
  ELSE LET s == Strip(Head(seq), WS)
       IN  IF s # <<>> /\ s \notin seen
           THEN DedupeLoop(Tail(seq), seen \cup {s}, Append(out, s))
           ELSE DedupeLoop(Tail(seq), seen, out)

\* dedupe without the "s not in seen" test
dedupe_keepsRepeats(seq) ==
  SelectSeq([k \in DOMAIN seq |-> Strip(seq[k], WS)], LAMBDA x : x # <<>>)

dedupe(seq) == DedupeLoop(seq, {}, <<>>)

\* the keys of the returned dict, in insertion order
Families == <<"APA_parenthetical", "APA_narrative", "IEEE_numeric">>

CitationTable(p, n, i) ==
  [APA_parenthetical |-> dedupe(p), APA_narrative |-> dedupe(n), IEEE_numeric |-> dedupe(i)]

----------------------------------------------------------------------------
(* the rows of the extract route *)

\* kind.replace("_", " ") of the three keys
TypeOf(kind) ==
  CASE kind = "APA_parenthetical" -> "APA parenthetical"
    [] kind = "APA_narrative"     -> "APA narrative"
    [] kind = "IEEE_numeric"      -> "IEEE numeric"

\* the three Type values in ascending str order
TypeOrder == <<"APA narrative", "APA parenthetical", "IEEE numeric">>

TypeRank(ty) == CHOOSE k \in DOMAIN TypeOrder : TypeOrder[k] = ty

RECURSIVE FlattenRows(_, _)
\* for kind, items in buckets.items(): for it in items: rows.append(...)
FlattenRows(buckets, k) ==
  IF k > Len(Families) THEN <<>>
  ELSE [x \in DOMAIN buckets[Families[k]] |->
          [Type |-> TypeOf(Families[k]), Citation |-> buckets[Families[k]][x]]]
       \o FlattenRows(buckets, k + 1)

\* counts[r["Citation"]] after the counting loop
CountOf(flat, c) == Cardinality({x \in DOMAIN flat : flat[x].Citation = c})

\* WithCounts with the counter keyed by the (Type, Citation) pair
WithCounts_perFamily(flat) ==
  [x \in DOMAIN flat |->
     [Type |-> flat[x].Type, Citation |-> flat[x].Citation,
      Count |-> Cardinality({y \in DOMAIN flat : flat[y] = flat[x]})]]

WithCounts(flat) ==
  [x \in DOMAIN flat |->
     [Type |-> flat[x].Type, Citation |-> flat[x].Citation,
      Count |-> CountOf(flat, flat[x].Citation)]]

RECURSIVE DropDuplicates(_, _)
\* DataFrame.drop_duplicates(): the first of equal rows is kept
DropDuplicates(q, seen) ==
  IF q = <<>> THEN <<>>
  ELSE IF Head(q) \in seen THEN DropDuplicates(Tail(q), seen)
  ELSE <<Head(q)>> \o DropDuplicates(Tail(q), seen \cup {Head(q)})

RowLeq(r1, r2) ==
  \/ TypeRank(r1.Type) < TypeRank(r2.Type)
  \/ r1.Type = r2.Type /\ ~StrLess(r2.Citation, r1.Citation)

RECURSIVE SortRows(_)
\* sort_values(["Type", "Citation"]): rows that differ in neither column are
\* equal rows, of which drop_duplicates left one
SortRows(S) ==
  IF S = {} THEN <<>>
  ELSE LET r == CHOOSE x \in S : \A y \in S : RowLeq(x, y)
       IN  <<r>> \o SortRows(S \ {r})

DisplayRows(buckets) ==
  SortRows(Range(DropDuplicates(WithCounts(FlattenRows(buckets, 1)), {})))

----------------------------------------------------------------------------
(* Source texts *)

RECURSIVE Concat(_)
Concat(q) == IF q = <<>> THEN <<>> ELSE Head(q) \o Concat(Tail(q))

SeqsUpTo(S, n) == UNION {[1..k -> S] : k \in 0..n}

MaxItems == 2

\* fragments of a document: parenthetical and narrative mentions, bracket groups
Items ==
  { \* (Ab, 2020)
    <<"(","A","b",","," ","2","0","2","0",")">>,
    \* Ab (2020)
    <<"A","b"," ","(","2","0","2","0",")">>,
    \* (Abp 2020)
    <<"(","A","b","p"," ","2","0","2","0",")">>,
    \* (p. 5. 2020)
    <<"(","p","."," ","5","."," ","2","0","2","0",")">>,
    \* (p 5\n2020)
    <<"(","p"," ","5","\n","2","0","2","0",")">>,
    \* [01,1]
    <<"[","0","1",",","1","]">>,
    \* [1-2-3]
    <<"[","1","-","2","-","3","]">>,
    \* [5-2, 3]
    <<"[","5","-","2",","," ","3","]">>,
    \*  and 
    <<" ","a","n","d"," ">>,
    \* Cd et al. (1999a)
    <<"C","d"," ","e","t"," ","a","l","."," ","(","1","9","9","9","a",")">>,
    \* (see Cd and Ab, 1999, pp. 2-4; x)
    <<"(","s","e","e"," ","C","d"," ","a","n","d"," ","A","b",","," ","1","9","9","9",","," ","p","p","."," ","2","-","4",";"," ","x",")">>}

Texts == {Concat(q) : q \in SeqsUpTo(Items, MaxItems)}

----------------------------------------------------------------------------
(* The extract route: one request runs the three extractors, builds the    *)
(* Citation Table and then the display rows.                               *)

MaxRuns == 2

NoTable == <<>>

InitWith(T) ==
  /\ text \in T
  /\ pc = "start"
  /\ apa_p = <<>>
  /\ apa_n = <<>>
  /\ ieee = <<>>
  /\ table = NoTable
  /\ rows = <<>>
  /\ error = "none"
  /\ run = 1
  /\ prev = NoTable
  /\ arg = <<>>
  /\ ret = <<>>

Init == InitWith(Texts)

ExtractApaParenthetical ==
  /\ pc = "start"
  /\ apa_p' = extract_apa_parenthetical(text)
  /\ pc' = "narrative"
  /\ UNCHANGED <<text, apa_n, ieee, table, rows, error, run, prev, arg, ret>>

ExtractApaNarrative ==
  /\ pc = "narrative"
  /\ apa_n' = extract_apa_narrative(text)
  /\ pc' = "ieee"
  /\ UNCHANGED <<text, apa_p, ieee, table, rows, error, run, prev, arg, ret>>

ExtractIeee ==
  /\ pc = "ieee"
  /\ ~IeeeRaises(text)
  /\ \E r \in extract_ieee(text) : ieee' = r
  /\ pc' = "dedupe"
  /\ UNCHANGED <<text, apa_p, apa_n, table, rows, error, run, prev, arg, ret>>

ExtractIeeeRaises ==
  /\ pc = "ieee"
  /\ IeeeRaises(text)
  /\ error' = IF \E k \in DOMAIN IeeeParts(text) : PartRaises(IeeeParts(text)[k])
              THEN "ValueError" ELSE "TypeError"
  /\ pc' = "raised"
  /\ UNCHANGED <<text, apa_p, apa_n, ieee, table, rows, run, prev, arg, ret>>

ReturnTable ==
  /\ pc = "dedupe"
  /\ table' = CitationTable(apa_p, apa_n, ieee)
  /\ pc' = "returned"
  /\ UNCHANGED <<text, apa_p, apa_n, ieee, rows, error, run, prev, arg, ret>>

\* DataFrame([]) has no columns: sort_values(["Type", "Citation"]) raises
\* KeyError when the table holds no citation at all
BuildRows ==
  /\ pc = "returned"
  /\ FlattenRows(table, 1) # <<>>
  /\ rows' = DisplayRows(table)
  /\ pc' = "rendered"
  /\ UNCHANGED <<text, apa_p, apa_n, ieee, table, error, run, prev, arg, ret>>

BuildRowsRaises ==
  /\ pc = "returned"
  /\ FlattenRows(table, 1) = <<>>
  /\ error' = "KeyError"
  /\ pc' = "raised"
  /\ UNCHANGED <<text, apa_p, apa_n, ieee, table, rows, run, prev, arg, ret>>

\* the same document is submitted again
Rerun ==
  /\ pc \in {"rendered", "raised"}
  /\ run < MaxRuns
  /\ run' = run + 1
  /\ prev' = table
  /\ pc' = "start"
  /\ apa_p' = <<>>
  /\ apa_n' = <<>>
  /\ ieee' = <<>>
  /\ table' = NoTable
  /\ rows' = <<>>
  /\ error' = "none"
  /\ UNCHANGED <<text, arg, ret>>

Next ==
  \/ ExtractApaParenthetical
  \/ ExtractApaNarrative
  \/ ExtractIeee
  \/ ExtractIeeeRaises
  \/ ReturnTable
  \/ BuildRows
  \/ BuildRowsRaises
  \/ Rerun

Spec == Init /\ [][Next]_vars

----------------------------------------------------------------------------
(* extract_ieee called on its own, on texts made of bracket groups *)

MaxGroups == 2

\* comma-separated parts: single numbers, ranges (ascending, descending, with an
\* en dash and blanks) and a part with two dashes
SampleParts ==
  { \* 1
    <<"1">>,
    \* 01
    <<"0","1">>,
    \* 2-4
    <<"2","-","4">>,
    \* 5-2
    <<"5","-","2">>,
    \* 1 \u2013 3
    <<"1"," ",EnDash," ","3">>,
    \* 1-2-3
    <<"1","-","2","-","3">>}

\* bracket groups with a non-numeric part, and running text
OtherItems ==
  { \* [a]
    <<"[","a","]">>,
    \* [1,a]
    <<"[","1",",","a","]">>,
    \*  and 
    <<" ","a","n","d"," ">>}

BracketGroups ==
  {<<"[">> \o x \o <<"]">> : x \in SampleParts}
    \cup {<<"[">> \o xy[1] \o <<",", " ">> \o xy[2] \o <<"]">> :
            xy \in {q \in SampleParts \X SampleParts : q[1] # q[2]}}

IeeeTexts == {Concat(q) : q \in SeqsUpTo(BracketGroups \cup OtherItems, MaxGroups)}

InitIeee ==
  /\ text \in IeeeTexts
  /\ pc = "ieee"
  /\ apa_p = <<>>
  /\ apa_n = <<>>
  /\ ieee = <<>>
  /\ table = NoTable
  /\ rows = <<>>
  /\ error = "none"
  /\ run = 1
  /\ prev = NoTable
  /\ arg = <<>>
  /\ ret = <<>>

NextIeee == ExtractIeee \/ ExtractIeeeRaises

SpecIeee == InitIeee /\ [][NextIeee]_vars

----------------------------------------------------------------------------
(* _clean_piece called on its own *)

\* the connector phrases of the pattern, some of them capitalised
Phrases ==
  { \* see
    <<"s","e","e">>,
    \* See
    <<"S","e","e">>,
    \* e.g.
    <<"e",".","g",".">>,
    \* E.g.
    <<"E",".","g",".">>,
    \* cf.
    <<"c","f",".">>,
    \* e.g
    <<"e",".","g">>,
    \* i.e.
    <<"i",".","e",".">>,
    \* i.e.,
    <<"i",".","e",".",",">>,
    \* for example
    <<"f","o","r"," ","e","x","a","m","p","l","e">>,
    \* For example
    <<"F","o","r"," ","e","x","a","m","p","l","e">>,
    \* see also
    <<"s","e","e"," ","a","l","s","o">>,
    \* See also
    <<"S","e","e"," ","a","l","s","o">>}

\* what may follow a connector
Separators ==
  { \*  
    <<" ">>,
    \* : 
    <<":"," ">>,
    \* , 
    <<","," ">>,
    \* 
    <<>>}

\* what is left of a piece after its connector
Remainders ==
  { \* Ab, 2020
    <<"A","b",","," ","2","0","2","0">>,
    \* also Ab
    <<"a","l","s","o"," ","A","b">>,
    \* Ab 2020.
    <<"A","b"," ","2","0","2","0",".">>,
    \* Ab; 
    <<"A","b",";"," ">>}

CleanInputs ==
  Remainders \cup {x \o y \o z : x \in Phrases, y \in Separators, z \in Remainders}

InitClean ==
  /\ arg \in CleanInputs
  /\ pc = "clean"
  /\ ret = <<>>
  /\ text = <<>>
  /\ apa_p = <<>>
  /\ apa_n = <<>>
  /\ ieee = <<>>
  /\ table = NoTable
  /\ rows = <<>>
  /\ error = "none"
  /\ run = 1
  /\ prev = NoTable

CleanPiece ==
  /\ pc = "clean"
  /\ ret' = _clean_piece(arg)
  /\ pc' = "cleaned"
  /\ UNCHANGED <<text, apa_p, apa_n, ieee, table, rows, error, run, prev, arg>>

SpecClean == InitClean /\ [][CleanPiece]_vars

----------------------------------------------------------------------------
(* Properties *)

FamilySet == Range(Families)

\* the characters of the cleanup rule
EdgeChars == {" ", ".", ";", ","}

\* the candidate sequence an extractor handed to dedupe
CandidatesOf(f) ==
  CASE f = "APA_parenthetical" -> apa_p
    [] f = "APA_narrative"     -> apa_n
    [] f = "IEEE_numeric"      -> ieee

\* the elements of c at the positions I, in the order of c
PickedFrom(c, I) ==
  [k \in 1..Cardinality(I) |->
     c[CHOOSE i \in I : Cardinality({j \in I : j <= i}) = k]]

\* c without its empty strings and without every later repeat
FirstOccurrences(c) ==
  PickedFrom(c, {i \in DOMAIN c : c[i] # <<>> /\ \A j \in 1..(i - 1) : c[j] # c[i]})

Stripped(c) == [k \in DOMAIN c |-> Strip(c[k], WS)]

Inner(x) == SubSeq(x, 2, Len(x) - 1)

IntOf(x) == ToInt(Inner(x))

InBrackets(q) == <<"[">> \o q \o <<"]">>

Dashes(p) == {k \in DOMAIN p : p[k] \in {"-", EnDash}}

DigitsOf(q) == SelectSeq(q, LAMBDA c : c \in Digit)

\* the two bounds of a part with one dash
Lo(p) == ToInt(DigitsOf(SubSeq(p, 1, (CHOOSE k \in Dashes(p) : TRUE) - 1)))
Hi(p) == ToInt(DigitsOf(SubSeq(p, (CHOOSE k \in Dashes(p) : TRUE) + 1, Len(p))))

\* the integers a part with at most one dash cites
CitedBy(p) == IF Dashes(p) = {} THEN {ToInt(DigitsOf(p))} ELSE Lo(p)..Hi(p)

\* the bracket groups of a text as written: "[" to the next "]"
RawGroups(t) ==
  {g \in (DOMAIN t) \X (DOMAIN t) :
     /\ g[1] < g[2]
     /\ t[g[1]] = "["
     /\ t[g[2]] = "]"
     /\ \A k \in (g[1] + 1)..(g[2] - 1) : t[k] \notin {"[", "]"}}

RawParts(t, g) == ReSplit("comma", SubSeq(t, g[1] + 1, g[2] - 1), 1, <<>>)

NonNumeric(q) == \E k \in DOMAIN q : q[k] \in LowerAZ \cup UpperAZ

HasNonNumericPart(t, g) ==
  \E k \in DOMAIN RawParts(t, g) : NonNumeric(RawParts(t, g)[k])

\* s ends with a year token
EndsWithYear(s) ==
  \E i \in DOMAIN s : Year4At(s, i) /\ YearEnd(s, i) = Len(s) + 1

\* C1: extract_citations_from_text is total: on every text it returns a
\* mapping with exactly the three family keys and never raises.
C1_Total ==
  /\ error \notin {"ValueError", "TypeError"}
  /\ pc = "returned" => DOMAIN table = FamilySet

\* C2: every string of every family list is non-empty and neither starts nor
\* ends with a space, '.', ';' or ','.
C2_NoEdgePunctuation ==
  pc = "returned" =>
    \A f \in FamilySet : \A k \in DOMAIN table[f] :
      /\ table[f][k] # <<>>
      /\ Head(table[f][k]) \notin EdgeChars
      /\ Last(table[f][k]) \notin EdgeChars

\* C3 as stated: each family list is the candidate sequence itself with the
\* empty strings and every later repeat removed, in first-occurrence order.
C3_FirstOccurrencesOfCandidates ==
  pc = "returned" =>
    \A f \in FamilySet : table[f] = FirstOccurrences(CandidatesOf(f))

\* C3 amended: each family list is the sequence of the candidates stripped of
\* surrounding whitespace, with the empty strings and every later repeat
\* removed, in first-occurrence order; no two of its elements are equal.
C3_FirstOccurrencesOfStripped ==
  pc = "returned" =>
    \A f \in FamilySet :
      /\ table[f] = FirstOccurrences(Stripped(CandidatesOf(f)))
      /\ \A i, j \in DOMAIN table[f] : i # j => table[f][i] # table[f][j]

\* C3 witness: dedupe has removed a repeat and kept an entry
C3_RepeatRemoved ==
  /\ pc = "returned"
  /\ table.APA_parenthetical # <<>>
  /\ Len(table.APA_parenthetical) < Len(apa_p)

\* C4: when extract_ieee returns, its output holds the numbers of all matched
\* groups, each distinct integer exactly once, in ascending numeric order.
C4_EachIntegerOnceAscending ==
  pc = "dedupe" =>
    /\ \A k \in DOMAIN IeeeParts(text) : \A n \in CitedBy(IeeeParts(text)[k]) :
         \E x \in Range(ieee) : IntOf(x) = n
    /\ \A i, j \in DOMAIN ieee : i < j => IntOf(ieee[i]) < IntOf(ieee[j])

\* C5: two runs of extract_citations_from_text on the same text return
\* identical Citation Tables, whatever the iteration order of the set.
C5_SameTableOnRerun ==
  (run > 1 /\ pc = "returned") => table = prev

\* C6: a range part with lower bound above upper bound adds no number and
\* raises nothing, and every other part is still processed: a single number
\* is emitted as itself, a range a-b with a <= b as every integer a..b.
C6_DescendingRangeDropped ==
  LET parts == IeeeParts(text)
  IN  /\ pc = "raised" => \E k \in DOMAIN parts : Cardinality(Dashes(parts[k])) > 1
      /\ pc = "dedupe" =>
           /\ \A k \in DOMAIN parts :
                Dashes(parts[k]) = {} => InBrackets(parts[k]) \in Range(ieee)
           /\ \A k \in DOMAIN parts :
                Dashes(parts[k]) # {} =>
                  \A n \in Lo(parts[k])..Hi(parts[k]) : InBrackets(ToStr(n)) \in Range(ieee)
           /\ \A x \in Range(ieee) : \E k \in DOMAIN parts : IntOf(x) \in CitedBy(parts[k])

\* C6 witness: a descending range beside parts that were processed
C6_DescendingBesideOthers ==
  /\ pc = "dedupe"
  /\ ieee # <<>>
  /\ \E k \in DOMAIN IeeeParts(text) :
       /\ Dashes(IeeeParts(text)[k]) # {}
       /\ Lo(IeeeParts(text)[k]) > Hi(IeeeParts(text)[k])

\* C7 as stated: a non-numeric part of a bracket group is passed through, so
\* "[abc]" yields "[abc]" in the output of extract_ieee.
C7_NonNumericPassedThrough ==
  pc = "dedupe" =>
    \A g \in RawGroups(text) : \A k \in DOMAIN RawParts(text, g) :
      NonNumeric(RawParts(text, g)[k]) => InBrackets(RawParts(text, g)[k]) \in Range(ieee)

\* C7 amended: a bracket group with a non-numeric part is not matched, so a
\* text whose groups all have one yields nothing; every entry of the output
\* is "[" decimal digits "]", and a part without a dash of a matched group is
\* emitted verbatim.
C7_OnlyDigitGroupsMatched ==
  pc = "dedupe" =>
    /\ \A x \in Range(ieee) :
         Head(x) = "[" /\ Last(x) = "]" /\ IntOk(Inner(x))
    /\ (\A g \in RawGroups(text) : HasNonNumericPart(text, g)) => ieee = <<>>
    /\ \A g \in RawGroups(text) : \A k \in DOMAIN RawParts(text, g) :
         (~HasNonNumericPart(text, g) /\ IntOk(RawParts(text, g)[k]))
           => InBrackets(RawParts(text, g)[k]) \in Range(ieee)

\* C7 witness: a group with a non-numeric part beside a group that is matched
C7_NonNumericGroupSkipped ==
  /\ pc = "dedupe"
  /\ ieee # <<>>
  /\ \E g \in RawGroups(text) : HasNonNumericPart(text, g)

\* C8 as stated: the Count of every display row is 1.
C8_CountAlwaysOne ==
  pc = "rendered" => \A k \in DOMAIN rows : rows[k].Count = 1

\* C8 amended: the Count of a display row is the number of families whose
\* list holds the row's citation string; it is 1 unless the same string is
\* recognised under more than one family.
C8_CountIsNumberOfFamilies ==
  pc = "rendered" =>
    \A k \in DOMAIN rows :
      rows[k].Count =
        Cardinality({f \in FamilySet : rows[k].Citation \in Range(table[f])})

\* C8 witness: one string recognised by two extractors
C8_CountedTwice ==
  /\ pc = "rendered"
  /\ \E k \in DOMAIN rows : rows[k].Count = 2

\* C9: _clean_piece removes every listed leading connector in full: for a
\* phrase P and a remainder R that starts with no connector,
\* _clean_piece(P + " " + R) = _clean_piece(R); a piece with no leading
\* connector only loses whitespace and '.', ';', ',' at its ends.
C9_ConnectorRemovedInFull ==
  pc = "cleaned" =>
    /\ \A P \in Phrases : \A R \in Remainders :
         (arg = P \o <<" ">> \o R /\ ConnectorMatchEnd(R) = 0) => ret = _clean_piece(R)
    /\ ConnectorMatchEnd(Strip(arg, WS)) = 0 => ret = Strip(Strip(arg, WS), EdgeChars)

\* C10: every string of the APA_parenthetical list ends with a year token.
C10_EndsWithYear ==
  pc = "returned" =>
    \A k \in DOMAIN table.APA_parenthetical : EndsWithYear(table.APA_parenthetical[k])

====
